---- MODULE Spec2Model ----
(***************************************************************************)
(* A model of the engine.io socket of fossabot/socketio:                   *)
(*   - engine/socket.go    Socket.upgrade, Socket.Close, Socket.emit       *)
(*   - engine/fasthttp.go  pollingConn.HandleFastHTTP, Server.HandleFastHTTP*)
(* One specification per component:                                        *)
(*   Spec         the Socket under concurrent upgrade calls, with a reader *)
(*   SpecEmit     the Socket under Close and Emit calls, with its emitter  *)
(*   SpecOrder    the Socket under upgrade and Send calls, with its emitter*)
(*   SpecRace     the Socket under upgrade, Close and HTTP requests        *)
(*   SpecPolling  a polling conn under concurrent HTTP requests            *)
(*   SpecServer   the server under concurrent HTTP requests                *)
(*   SpecSio      the packets of one Socket.IO socket                      *)
(***************************************************************************)
EXTENDS Integers, Sequences, FiniteSets, TLC

(***************************************************************************)
(* Bounds of the model.                                                    *)
(***************************************************************************)
NUpgraders == 2
NClosers == 2
MaxEmits == 2
QueueCap == 2
NRequests == 2
MaxPayload == 2
MaxOut == 2
NSrvRequests == 2
MaxPackets == 2
MaxAckId == 2

VARIABLES
    \* ---- Socket (engine/socket.go:9-18)
    Conn,          \* the embedded Conn: id of the conn the socket holds
    transport,     \* Socket.transport
    rwWriter,      \* sync.RWMutex: the upgrader holding the write lock, 0 if none
    rwReaders,     \* sync.RWMutex: the readers holding the read lock
    once,          \* sync.Once of Close: "new" | "running" | "done"
    \* ---- the conns (Conn interface): 0 is the conn the socket was created
    \* ---- with, u is the newConn handed to upgrade call u
    connClosed,    \* [conn -> BOOLEAN]  Close has been called on the conn
    connPaused,    \* [conn -> BOOLEAN]  the conn is paused
    connOut,       \* [conn -> Seq(packet)]  packets written to the conn, not yet taken by the client
    closeCalls,    \* [conn -> Nat]  number of Close calls on the conn
    \* ---- one call of Socket.upgrade per upgrader
    upc,           \* [upgrader -> program counter]
    targ,          \* [upgrader -> transport argument]
    p,             \* [upgrader -> local packet p]
    uconn,         \* [upgrader -> local conn (line 39)]
    got1,          \* [upgrader -> what the first ReadPacket returned]
    pongOK,        \* [upgrader -> the Pong write succeeded]
    pausedOK,      \* [upgrader -> conn.Pause() returned nil]
    got2,          \* [upgrader -> what the second ReadPacket returned]
    resumed,       \* [upgrader -> set of conns this call called Resume on]
    wroteConn,     \* set of upgraders that assigned s.Conn
    wroteTransport,\* set of upgraders that assigned s.transport
    fired,         \* [upgrader -> number of EventUpgrade fired by the call]
    \* ---- callers of Socket.Close
    cpc,           \* [closer -> program counter]
    emitterCloseCalls, \* number of emitter.close() calls made by Socket.Close
    sockCloseCalls,    \* number of s.Conn.Close() calls made by Socket.Close
    \* ---- a reader of the socket's fields under RLock
    rpc,           \* program counter of the reader
    seenConn,      \* the Conn the reader read
    seenTransport, \* the transport the reader read
    \* ---- emitter and Emit
    emClosed,      \* the emitter is closed
    emq,           \* the emitter's queue of submitted packets
    nEmits,        \* number of Emit calls made
    lastEmit,      \* the last Emit call: its input and its result
    written,       \* Seq of [n, conn]: packets the emitter wrote, in order, with the conn written to
    lateEmits,     \* the numbers of the Emit calls made after Close had run
    parked,        \* [conn -> BOOLEAN]  a client GET is in flight on the conn
    racyReads,     \* the operations that read Conn without the lock while an upgrade held the write lock
    \* ---- a pollingConn (fields in, out, closed) and the HTTP requests on it
    pIn,           \* p.in: packets pushed by POSTs, not yet read
    pOut,          \* p.out: packets written to the conn, not yet taken by a GET
    pClosed,       \* p.closed has fired
    nOut,          \* number of packets written to the conn so far
    inLog,         \* every packet pushed to p.in, in order: <<request, index>>
    getLog,        \* the packets the finished GETs wrote in their responses, in order
    hpc,           \* [request -> program counter of pollingConn.HandleFastHTTP]
    hMethod,       \* [request -> method]
    hCtype,        \* [request -> Content-Type header]
    hN,            \* [request -> number of packets of the decoded payload]
    hI,            \* [request -> number of packets pushed so far]
    hStatus,       \* [request -> status code of the response, 0 before it is set]
    hTaken,        \* [request -> packet the GET took from out, 0 if none]
    hWrote,        \* [request -> packet written in the response, 0 if none]
    hClosedAtEntry,\* [request -> closed had fired when the request arrived]
    hSawClosed,    \* [request -> closed had fired at a push with packets remaining]
    \* ---- Server (engine/fasthttp.go:166-215)
    sessions,      \* sessionManager: [sid -> transportName of the session, "none" if absent]
    srvDone,       \* the server's done channel has fired
    ssChan,        \* the sessions sent on the new-session channel
    qpc,           \* [request -> position in Server.HandleFastHTTP]
    q,             \* [request -> the query of its URI]
    qFound,        \* [request -> transportName of the session its sid named on arrival]
    qSes,          \* [request -> sid of the session the handler holds]
    qStatus,       \* [request -> status code set by the server, 0 if none]
    qTrace,        \* [request -> the calls the handler made, in order]
    \* ---- Socket.IO socket (engine/fasthttp.go:217-362)
    nsp,           \* socket.nsp: the names of the attached namespaces
    evH,           \* [name -> the namespace has a handler for the packets' event]
    ackH,          \* [name -> the namespace has an ack handler for the packets' id]
    sioClosed,     \* the EventClose handler has run
    onErrorSet,    \* sock.onError is not nil
    nProc,         \* number of packets processed
    connected,     \* names with a Connect processed and no Disconnect after it
    last,          \* the last packet processed, the socket as process found it, what it did
    lateDispatch   \* a handler was dispatched after the EventClose handler ran

socketVars == <<Conn, transport, rwWriter, rwReaders, once, connClosed, connPaused,
                connOut, closeCalls, upc, targ, p, uconn, got1, pongOK, pausedOK,
                got2, resumed, wroteConn, wroteTransport, fired, cpc,
                emitterCloseCalls, sockCloseCalls, rpc, seenConn, seenTransport,
                emClosed, emq, nEmits, lastEmit, written, lateEmits, parked,
                racyReads>>

pollVars == <<pIn, pOut, pClosed, nOut, inLog, getLog, hpc, hMethod, hCtype, hN, hI,
              hStatus, hTaken, hWrote, hClosedAtEntry, hSawClosed>>

srvVars == <<sessions, srvDone, ssChan, qpc, q, qFound, qSes, qStatus, qTrace>>

sioVars == <<nsp, evH, ackH, sioClosed, onErrorSet, nProc, connected, last, lateDispatch>>

vars == <<socketVars, pollVars, srvVars, sioVars>>

(***************************************************************************)
(* Values.                                                                 *)
(***************************************************************************)
Upgraders == 1..NUpgraders
Closers == 1..NClosers
OldConn == 0
ConnIds == {OldConn} \cup Upgraders
NoConn == -1

transportPolling == "polling"
transportWebsocket == "websocket"
Transports == {transportPolling, transportWebsocket}

Packet(t, m, d) == [t |-> t, m |-> m, d |-> d, n |-> 0]
NoPacket == Packet("none", "none", "none")
ErrRead == Packet("err", "none", "none")

\* What a ReadPacket on a newConn can return: an error, or one of these packets.
Readable ==
    { Packet("Ping", "String", "probe"), Packet("Ping", "Binary", "x"),
      Packet("Upgrade", "String", ""), Packet("Message", "String", "m"),
      ErrRead }

(***************************************************************************)
(* The Conn interface, as Socket uses it.                                  *)
(***************************************************************************)
\* Conn.Close: the closed signal fires, out is drained.
ConnClose(c) ==
    /\ connClosed' = [connClosed EXCEPT ![c] = TRUE]
    /\ connOut' = [connOut EXCEPT ![c] = <<>>]
    /\ closeCalls' = [closeCalls EXCEPT ![c] = @ + 1]

\* Conn.Pause: what it can return. An error on a closed conn; on an open conn
\* nil, or an error of the transport.
PauseResults(c) == IF connClosed[c] THEN {"err"} ELSE {"nil", "err"}

\* The variables of the other components.
notSocket == <<pollVars, srvVars, sioVars>>
notPolling == <<socketVars, srvVars, sioVars>>
notServer == <<socketVars, pollVars, sioVars>>
notSio == <<socketVars, pollVars, srvVars>>

sockFields == <<Conn, transport>>
lockVars == <<rwWriter, rwReaders>>
connVars == <<connClosed, connPaused, connOut, closeCalls>>
upLocal == <<targ, p, uconn>>
upGhost == <<got1, pongOK, pausedOK, got2, resumed, wroteConn, wroteTransport, fired>>
closeVars == <<once, cpc, emitterCloseCalls, sockCloseCalls>>
readerVars == <<rpc, seenConn, seenTransport>>
emitVars == <<emClosed, emq, nEmits, lastEmit, written, lateEmits, parked>>

(***************************************************************************)
(* Socket.upgrade(transport, newConn), engine/socket.go:20-66.             *)
(* Upgrader u runs one call, with newConn = conn u.                        *)
(***************************************************************************)
\* The call.  The transport argument is any transport name; the call first
\* uses it at line 62, and the model draws it there.
UpgradeCall(u) ==
    /\ upc[u] = "idle"
    /\ upc' = [upc EXCEPT ![u] = "read1"]
    /\ UNCHANGED <<sockFields, lockVars, connVars, upLocal, upGhost, closeVars,
                   readerVars, emitVars>>
    /\ UNCHANGED <<racyReads, notSocket>>

\* Lines 21-30: first ReadPacket; an error or a packet that is not Ping closes newConn.
UpgradeRead1(u) ==
    /\ upc[u] = "read1"
    /\ \E r \in Readable :
        /\ got1' = [got1 EXCEPT ![u] = r.t]
        /\ IF r.t # "Ping"
             THEN /\ ConnClose(u)
                  /\ upc' = [upc EXCEPT ![u] = "done"]
                  /\ UNCHANGED p
             ELSE /\ p' = [p EXCEPT ![u] = r]
                  /\ upc' = [upc EXCEPT ![u] = "pong"]
                  /\ UNCHANGED <<connClosed, connOut, closeCalls>>
    /\ UNCHANGED <<sockFields, lockVars, connPaused, targ, uconn, pongOK, pausedOK,
                   got2, resumed, wroteConn, wroteTransport, fired, closeVars,
                   readerVars, emitVars>>
    /\ UNCHANGED <<racyReads, notSocket>>

PongOf_NoPayload(pkt) == Packet("Pong", "String", "")

\* Line 31: p.pktType = PacketTypePong, on the packet that was read.
PongOf(pkt) == [pkt EXCEPT !.t = "Pong"]

\* Lines 31-36: p becomes a Pong and is written to newConn; a failed write closes newConn.
UpgradeWritePong(u) ==
    /\ upc[u] = "pong"
    /\ LET pong == PongOf(p[u]) IN
       \E ok \in BOOLEAN :
        IF ok
          THEN /\ p' = [p EXCEPT ![u] = pong]
               /\ connOut' = [connOut EXCEPT ![u] = Append(@, pong)]
               /\ pongOK' = [pongOK EXCEPT ![u] = TRUE]
               /\ upc' = [upc EXCEPT ![u] = "rlock"]
               /\ UNCHANGED <<connClosed, closeCalls>>
          ELSE /\ p' = [p EXCEPT ![u] = NoPacket]
               /\ ConnClose(u)
               /\ upc' = [upc EXCEPT ![u] = "done"]
               /\ UNCHANGED pongOK
    /\ UNCHANGED <<sockFields, lockVars, connPaused, targ, uconn, got1, pausedOK,
                   got2, resumed, wroteConn, wroteTransport, fired, closeVars,
                   readerVars, emitVars>>
    /\ UNCHANGED <<racyReads, notSocket>>

\* Lines 38-40: conn := s.Conn under the read lock.
UpgradeReadConn(u) ==
    /\ upc[u] = "rlock"
    /\ rwWriter = 0
    /\ uconn' = [uconn EXCEPT ![u] = Conn]
    /\ upc' = [upc EXCEPT ![u] = "pause"]
    /\ UNCHANGED <<sockFields, lockVars, connVars, targ, p, upGhost, closeVars,
                   readerVars, emitVars>>
    /\ UNCHANGED <<racyReads, notSocket>>

\* Lines 42-45: conn.Pause(); on an error newConn is closed and the call returns.
UpgradePause(u) ==
    /\ upc[u] = "pause"
    /\ \E res \in PauseResults(uconn[u]) :
        IF res = "err"
          THEN /\ ConnClose(u)
               /\ upc' = [upc EXCEPT ![u] = "done"]
               /\ p' = [p EXCEPT ![u] = NoPacket]
               /\ UNCHANGED <<connPaused, pausedOK>>
          ELSE /\ connPaused' = [connPaused EXCEPT ![uconn[u]] = TRUE]
               /\ pausedOK' = [pausedOK EXCEPT ![u] = TRUE]
               /\ upc' = [upc EXCEPT ![u] = "read2"]
               /\ UNCHANGED <<connClosed, connOut, closeCalls, p>>
    /\ UNCHANGED <<sockFields, lockVars, targ, uconn, got1, pongOK, got2, resumed,
                   wroteConn, wroteTransport, fired, closeVars, readerVars, emitVars>>
    /\ UNCHANGED <<racyReads, notSocket>>

\* A check of line 54 that accepts every packet read without an error.
SecondPacketAccepted_AnyPacket(r) == r.t # "err"

\* The type the second packet must have (line 54).
SecondPacketAccepted(r) == r.t = "Upgrade"

\* Lines 47-50 and 54-55: second ReadPacket; an error or a packet that is not
\* Upgrade closes newConn, and the call goes on to Resume the paused conn.
UpgradeRead2(u) ==
    /\ upc[u] = "read2"
    /\ \E r \in Readable :
        /\ got2' = [got2 EXCEPT ![u] = r.t]
        /\ IF ~SecondPacketAccepted(r)
             THEN /\ ConnClose(u)
                  /\ upc' = [upc EXCEPT ![u] = "resume"]
                  /\ p' = [p EXCEPT ![u] = NoPacket]
             ELSE /\ p' = [p EXCEPT ![u] = r]
                  /\ upc' = [upc EXCEPT ![u] = "lock"]
                  /\ UNCHANGED <<connClosed, connOut, closeCalls>>
    /\ UNCHANGED <<sockFields, lockVars, connPaused, targ, uconn, got1, pongOK,
                   pausedOK, resumed, wroteConn, wroteTransport, fired, closeVars,
                   readerVars, emitVars>>
    /\ UNCHANGED <<racyReads, notSocket>>

\* A Resume of the conn the socket holds now instead of the local conn.
ResumeTarget_CurrentConn(u) == Conn

\* The conn a failing call resumes: the local conn of line 39.
ResumeTarget(u) == uconn[u]

\* Lines 51-52 and 56-57: conn.Resume(); return.
UpgradeResume(u) ==
    /\ upc[u] = "resume"
    /\ connPaused' = [connPaused EXCEPT ![ResumeTarget(u)] = FALSE]
    /\ resumed' = [resumed EXCEPT ![u] = @ \cup {ResumeTarget(u)}]
    /\ upc' = [upc EXCEPT ![u] = "done"]
    /\ UNCHANGED <<sockFields, lockVars, connClosed, connOut, closeCalls, upLocal,
                   got1, pongOK, pausedOK, got2, wroteConn, wroteTransport, fired,
                   closeVars, readerVars, emitVars>>
    /\ UNCHANGED <<racyReads, notSocket>>

\* A line 60 that takes the read lock (s.RLock()) instead of the write lock.
UpgradeLock_RLock(u) ==
    /\ upc[u] = "lock"
    /\ rwWriter = 0
    /\ upc' = [upc EXCEPT ![u] = "setconn"]
    /\ UNCHANGED <<sockFields, lockVars, connVars, upLocal, upGhost, closeVars,
                   readerVars, emitVars>>
    /\ UNCHANGED <<racyReads, notSocket>>

\* Line 60: s.Lock().
UpgradeLock(u) ==
    /\ upc[u] = "lock"
    /\ rwWriter = 0
    /\ rwReaders = {}
    /\ rwWriter' = u
    /\ upc' = [upc EXCEPT ![u] = "setconn"]
    /\ UNCHANGED <<sockFields, rwReaders, connVars, upLocal, upGhost, closeVars,
                   readerVars, emitVars>>
    /\ UNCHANGED <<racyReads, notSocket>>

\* Line 61: s.Conn = newConn.
UpgradeSetConn(u) ==
    /\ upc[u] = "setconn"
    /\ Conn' = u
    /\ wroteConn' = wroteConn \cup {u}
    /\ upc' = [upc EXCEPT ![u] = "settransport"]
    /\ UNCHANGED <<transport, lockVars, connVars, upLocal, got1, pongOK, pausedOK,
                   got2, resumed, wroteTransport, fired, closeVars, readerVars,
                   emitVars>>
    /\ UNCHANGED <<racyReads, notSocket>>

\* Line 62: s.transport = transport.
UpgradeSetTransport(u) ==
    /\ upc[u] = "settransport"
    /\ \E t \in Transports :
        /\ targ' = [targ EXCEPT ![u] = t]
        /\ transport' = t
    /\ wroteTransport' = wroteTransport \cup {u}
    /\ upc' = [upc EXCEPT ![u] = "unlock"]
    /\ UNCHANGED <<Conn, lockVars, connVars, p, uconn, got1, pongOK, pausedOK,
                   got2, resumed, wroteConn, fired, closeVars, readerVars, emitVars>>
    /\ UNCHANGED <<racyReads, notSocket>>

\* Line 63: s.Unlock().
UpgradeUnlock(u) ==
    /\ upc[u] = "unlock"
    /\ rwWriter' = IF rwWriter = u THEN 0 ELSE rwWriter
    /\ upc' = [upc EXCEPT ![u] = "fire"]
    /\ UNCHANGED <<sockFields, rwReaders, connVars, upLocal, upGhost, closeVars,
                   readerVars, emitVars>>
    /\ UNCHANGED <<racyReads, notSocket>>

\* Lines 64-65: s.fire(s, EventUpgrade, p.msgType, p.data); return.
UpgradeFire(u) ==
    /\ upc[u] = "fire"
    /\ fired' = [fired EXCEPT ![u] = @ + 1]
    /\ upc' = [upc EXCEPT ![u] = "done"]
    /\ p' = [p EXCEPT ![u] = NoPacket]
    /\ UNCHANGED <<sockFields, lockVars, connVars, targ, uconn, got1, pongOK, pausedOK,
                   got2, resumed, wroteConn, wroteTransport, closeVars,
                   readerVars, emitVars>>
    /\ UNCHANGED <<racyReads, notSocket>>

(***************************************************************************)
(* Socket.Close, engine/socket.go:72-78.                                   *)
(***************************************************************************)
\* A Close that runs f on every call, without the once.
CloseCall_NoOnce(c) ==
    /\ cpc[c] = "idle"
    /\ once' = "running"
    /\ cpc' = [cpc EXCEPT ![c] = "emclose"]
    /\ UNCHANGED <<sockFields, lockVars, connVars, upc, upLocal, upGhost,
                   emitterCloseCalls, sockCloseCalls, readerVars, emitVars>>
    /\ UNCHANGED <<racyReads, notSocket>>

\* Line 73: s.once.Do(f). The first caller runs f; a caller that finds f
\* running waits for it; a caller that finds it done returns.
CloseCall(c) ==
    /\ cpc[c] = "idle"
    /\ IF once = "new"
         THEN /\ once' = "running"
              /\ cpc' = [cpc EXCEPT ![c] = "emclose"]
         ELSE /\ once' = once
              /\ cpc' = [cpc EXCEPT ![c] = IF once = "running" THEN "blocked" ELSE "ret"]
    /\ UNCHANGED <<sockFields, lockVars, connVars, upc, upLocal, upGhost,
                   emitterCloseCalls, sockCloseCalls, readerVars, emitVars>>
    /\ UNCHANGED <<racyReads, notSocket>>

\* A Close whose f does not close the emitter.
CloseEmitter_Skipped(c) ==
    /\ cpc[c] = "emclose"
    /\ cpc' = [cpc EXCEPT ![c] = "connclose"]
    /\ UNCHANGED <<sockFields, lockVars, connVars, upc, upLocal, upGhost, once,
                   emitterCloseCalls, sockCloseCalls, readerVars, emitVars>>
    /\ UNCHANGED <<racyReads, notSocket>>

\* Line 74: s.emitter.close().
CloseEmitter(c) ==
    /\ cpc[c] = "emclose"
    /\ emClosed' = TRUE
    /\ emitterCloseCalls' = emitterCloseCalls + 1
    /\ cpc' = [cpc EXCEPT ![c] = "connclose"]
    /\ UNCHANGED <<sockFields, lockVars, connVars, upc, upLocal, upGhost, once,
                   sockCloseCalls, readerVars, emq, nEmits, lastEmit, written, lateEmits,
                   parked>>
    /\ UNCHANGED <<racyReads, notSocket>>

\* Line 75: err = s.Conn.Close(), on the conn the field holds now; f is done.
CloseConn(c) ==
    /\ cpc[c] = "connclose"
    /\ ConnClose(Conn)
    /\ parked' = [parked EXCEPT ![Conn] = FALSE]
    /\ sockCloseCalls' = sockCloseCalls + 1
    /\ once' = "done"
    /\ cpc' = [cpc EXCEPT ![c] = "ret"]
    /\ UNCHANGED <<sockFields, lockVars, connPaused, upc, upLocal, upGhost,
                   emitterCloseCalls, readerVars, emClosed, emq, nEmits, lastEmit,
                   written, lateEmits>>
    /\ racyReads' = IF rwWriter # 0 THEN racyReads \cup {"Close"} ELSE racyReads
    /\ UNCHANGED notSocket

\* once.Do returns to a caller that waited, when f is done.
CloseUnblock(c) ==
    /\ cpc[c] = "blocked"
    /\ once = "done"
    /\ cpc' = [cpc EXCEPT ![c] = "ret"]
    /\ UNCHANGED <<sockFields, lockVars, connVars, upc, upLocal, upGhost, once,
                   emitterCloseCalls, sockCloseCalls, readerVars, emitVars>>
    /\ UNCHANGED <<racyReads, notSocket>>

(***************************************************************************)
(* Socket.HandleFastHTTP, engine/fasthttp.go:58-62: the request is handed  *)
(* to the conn the field holds, read without the lock.                     *)
(***************************************************************************)
SockHandleFastHTTP ==
    /\ racyReads' = IF rwWriter # 0 THEN racyReads \cup {"HandleFastHTTP"}
                                    ELSE racyReads
    /\ UNCHANGED <<sockFields, lockVars, connVars, upc, upLocal, upGhost, closeVars,
                   readerVars, emitVars>>
    /\ UNCHANGED notSocket

(***************************************************************************)
(* A reader of the socket's fields: it holds the read lock while it reads  *)
(* Conn and then transport.                                                *)
(***************************************************************************)
ReaderLock ==
    /\ rpc = "idle"
    /\ rwWriter = 0
    /\ rwReaders' = rwReaders \cup {"reader"}
    /\ rpc' = "readconn"
    /\ UNCHANGED <<sockFields, rwWriter, connVars, upc, upLocal, upGhost, closeVars,
                   seenConn, seenTransport, emitVars>>
    /\ UNCHANGED <<racyReads, notSocket>>

ReaderReadConn ==
    /\ rpc = "readconn"
    /\ seenConn' = Conn
    /\ rpc' = "readtransport"
    /\ UNCHANGED <<sockFields, lockVars, connVars, upc, upLocal, upGhost, closeVars,
                   seenTransport, emitVars>>
    /\ UNCHANGED <<racyReads, notSocket>>

ReaderReadTransport ==
    /\ rpc = "readtransport"
    /\ seenTransport' = transport
    /\ rpc' = "unlock"
    /\ UNCHANGED <<sockFields, lockVars, connVars, upc, upLocal, upGhost, closeVars,
                   seenConn, emitVars>>
    /\ UNCHANGED <<racyReads, notSocket>>

ReaderUnlock ==
    /\ rpc = "unlock"
    /\ rwReaders' = rwReaders \ {"reader"}
    /\ rpc' = "idle"
    /\ seenConn' = NoConn
    /\ seenTransport' = "none"
    /\ UNCHANGED <<sockFields, rwWriter, connVars, upc, upLocal, upGhost, closeVars,
                   emitVars>>
    /\ UNCHANGED <<racyReads, notSocket>>

(***************************************************************************)
(* Socket.emit / Emit / Send, engine/socket.go:80-120.                     *)
(***************************************************************************)
Events == {"EventOpen", "EventMessage", "EventClose", "EventError", "EventUpgrade",
           "EventPing", "EventPong"}

PktTypeOf_NoDefault(ev) ==
    CASE ev = "EventOpen" -> "Open"
      [] ev = "EventMessage" -> "Message"
      [] ev = "EventClose" -> "Close"
      [] ev = "EventPing" -> "Ping"
      [] ev = "EventPong" -> "Pong"
      [] OTHER -> "Open"

\* Lines 81-98: the packet type of an event; "invalid" is the default branch.
PktTypeOf(ev) ==
    CASE ev = "EventOpen" -> "Open"
      [] ev = "EventMessage" -> "Message"
      [] ev = "EventClose" -> "Close"
      [] ev = "EventPing" -> "Ping"
      [] ev = "EventPong" -> "Pong"
      [] OTHER -> "invalid"

\* The kinds of args: []byte, string, a value json.Marshal encodes, one it rejects.
ArgKinds == {"bytes", "string", "value", "unmarshalable"}

\* Lines 99-109: the data of the packet; "error" when json.Marshal fails.
EncodeArgs(k) ==
    CASE k = "bytes" -> "raw"
      [] k = "string" -> "utf8"
      [] k = "value" -> "json"
      [] OTHER -> "error"

\* emitter.submit(p): ErrEmitterClosed once the emitter is closed, else the
\* packet is queued.
SubmitResult == IF emClosed THEN "ErrEmitterClosed" ELSE "nil"

\* The result of emit(event, MessageTypeString, args), lines 80-112.
EmitResult(ev, k) ==
    IF PktTypeOf(ev) = "invalid" THEN "ErrInvalidEvent"
    ELSE IF EncodeArgs(k) = "error" THEN "ErrMarshal"
    ELSE SubmitResult

\* Emit(event, args), lines 114-116 (Send is Emit(EventMessage, args)).
Emit(ev, k) ==
    /\ nEmits < MaxEmits
    /\ LET res == EmitResult(ev, k)
           pkt == [t |-> PktTypeOf(ev), m |-> "String", d |-> EncodeArgs(k),
                   n |-> nEmits + 1]
           \* the packets handed to s.emitter.submit (line 111)
           sub == IF PktTypeOf(ev) = "invalid" \/ EncodeArgs(k) = "error"
                    THEN <<>> ELSE <<pkt>>
       IN  /\ res = "nil" => Len(emq) < QueueCap
           /\ emq' = IF res = "nil" THEN Append(emq, pkt) ELSE emq
           /\ lastEmit' = [ev |-> ev, k |-> k, afterClose |-> once = "done",
                           res |-> res, n |-> nEmits + 1, sub |-> sub]
    /\ nEmits' = nEmits + 1
    /\ lateEmits' = IF once = "done" THEN lateEmits \cup {nEmits + 1} ELSE lateEmits
    /\ UNCHANGED <<sockFields, lockVars, connVars, upc, upLocal, upGhost, closeVars,
                   readerVars, emClosed, written, parked>>
    /\ UNCHANGED <<racyReads, notSocket>>

(***************************************************************************)
(* The emitter: a single loop that takes the next submitted packet and     *)
(* writes it to the conn the socket holds, read under the read lock.       *)
(***************************************************************************)
EmitterWrite ==
    /\ ~emClosed
    /\ emq # <<>>
    /\ rwWriter = 0
    /\ LET pkt == Head(emq) IN
       IF connClosed[Conn]
         THEN UNCHANGED <<connOut, written>>
         ELSE /\ Len(connOut[Conn]) < QueueCap
              /\ connOut' = [connOut EXCEPT ![Conn] = Append(@, pkt)]
              /\ written' = Append(written, [n |-> pkt.n, conn |-> Conn])
    /\ emq' = Tail(emq)
    /\ UNCHANGED <<sockFields, lockVars, connClosed, connPaused, closeCalls, upc,
                   upLocal, upGhost, closeVars, readerVars, emClosed, nEmits,
                   lastEmit, lateEmits, parked>>
    /\ UNCHANGED <<racyReads, notSocket>>

(***************************************************************************)
(* The client of a polling conn: a GET is accepted while the conn is       *)
(* neither paused nor closed, parks on out and takes one packet.            *)
(***************************************************************************)
ClientPark(c) ==
    \* the conn an upgrade call brings exists once the call is made
    /\ IF c = OldConn THEN TRUE ELSE upc[c] # "idle"
    /\ ~parked[c]
    /\ ~connPaused[c]
    /\ ~connClosed[c]
    /\ parked' = [parked EXCEPT ![c] = TRUE]
    /\ UNCHANGED <<sockFields, lockVars, connVars, upc, upLocal, upGhost, closeVars,
                   readerVars, emClosed, emq, nEmits, lastEmit, written, lateEmits>>
    /\ UNCHANGED <<racyReads, notSocket>>

ClientTake(c) ==
    /\ parked[c]
    /\ connOut[c] # <<>>
    /\ connOut' = [connOut EXCEPT ![c] = Tail(@)]
    /\ parked' = [parked EXCEPT ![c] = FALSE]
    /\ UNCHANGED <<sockFields, lockVars, connClosed, connPaused, closeCalls, upc,
                   upLocal, upGhost, closeVars, readerVars, emClosed, emq, nEmits,
                   lastEmit, written, lateEmits>>
    /\ UNCHANGED <<racyReads, notSocket>>

(***************************************************************************)
(* pollingConn.HandleFastHTTP, engine/fasthttp.go:64-129, on one polling   *)
(* conn.  Request r is one call of the handler.                            *)
(***************************************************************************)
Requests == 1..NRequests

StatusOK == 200
StatusBadRequest == 400
StatusNotFound == 404
StatusMethodNotAllowed == 405
StatusInternalServerError == 500

Methods == {"GET", "POST", "PUT"}

\* The Content-Type headers a POST may carry.
ContentTypes ==
    {"", "application/octet-stream", "text/plain", "text/plain; charset=utf-8",
     "text/plain; charset=UTF-8", "text/plain; charset=latin1", "application/json"}

\* mime.ParseMediaType (line 95): an error for a header without a media type,
\* else the media type and the charset parameter ("" when absent).
ParseMediaType(h) ==
    CASE h = "" -> [err |-> TRUE, mediatype |-> "", charset |-> ""]
      [] h = "application/octet-stream" ->
            [err |-> FALSE, mediatype |-> "application/octet-stream", charset |-> ""]
      [] h = "text/plain" -> [err |-> FALSE, mediatype |-> "text/plain", charset |-> ""]
      [] h = "text/plain; charset=utf-8" ->
            [err |-> FALSE, mediatype |-> "text/plain", charset |-> "utf-8"]
      [] h = "text/plain; charset=UTF-8" ->
            [err |-> FALSE, mediatype |-> "text/plain", charset |-> "UTF-8"]
      [] h = "text/plain; charset=latin1" ->
            [err |-> FALSE, mediatype |-> "text/plain", charset |-> "latin1"]
      [] OTHER -> [err |-> FALSE, mediatype |-> "application/json", charset |-> ""]

\* strings.ToLower on the charsets above.
ToLower(x) == IF x = "UTF-8" THEN "utf-8" ELSE x

ContentTypeAccepted_AnyTextPlain(h) ==
    LET r == ParseMediaType(h) IN
    /\ ~r.err
    /\ r.mediatype \in {"application/octet-stream", "text/plain"}

\* Lines 95-111: the Content-Type is accepted (no 400).
ContentTypeAccepted(h) ==
    LET r == ParseMediaType(h) IN
    /\ ~r.err
    /\ \/ r.mediatype = "application/octet-stream"
       \/ r.mediatype = "text/plain" /\ ToLower(r.charset) = "utf-8"

\* Line 66: the status answered when closed has fired at the arrival of the request.
ClosedAtEntryStatus == StatusBadRequest

\* The request ends with status st.
Answer(r, st) ==
    /\ hStatus' = [hStatus EXCEPT ![r] = st]
    /\ hpc' = [hpc EXCEPT ![r] = "done"]

\* Lines 65-69, 93-116, 126-127: the closed check, the switch on the method,
\* and for a POST the Content-Type and the decoding of the body.
HandleEntry(r) ==
    /\ hpc[r] = "idle"
    /\ hClosedAtEntry' = [hClosedAtEntry EXCEPT ![r] = pClosed]
    /\ \E m \in Methods :
        /\ hMethod' = [hMethod EXCEPT ![r] = m]
        /\ IF m = "POST"
             THEN \E ct \in ContentTypes, decodeOK \in BOOLEAN, n \in 0..MaxPayload :
                    /\ hCtype' = [hCtype EXCEPT ![r] = ct]
                    /\ IF pClosed THEN Answer(r, ClosedAtEntryStatus) /\ UNCHANGED hN
                       ELSE IF ~ContentTypeAccepted(ct)
                         THEN Answer(r, StatusBadRequest) /\ UNCHANGED hN
                       ELSE IF ~decodeOK
                         THEN Answer(r, StatusInternalServerError) /\ UNCHANGED hN
                       ELSE IF n = 0
                         THEN Answer(r, StatusOK) /\ UNCHANGED hN
                       ELSE /\ hN' = [hN EXCEPT ![r] = n]
                            /\ hpc' = [hpc EXCEPT ![r] = "post"]
                            /\ UNCHANGED hStatus
             ELSE /\ UNCHANGED <<hCtype, hN>>
                  /\ IF pClosed THEN Answer(r, ClosedAtEntryStatus)
                     ELSE IF m = "GET"
                       THEN hpc' = [hpc EXCEPT ![r] = "get"] /\ UNCHANGED hStatus
                     ELSE Answer(r, StatusMethodNotAllowed)
    /\ UNCHANGED <<pIn, pOut, pClosed, nOut, inLog, getLog, hI, hTaken, hWrote,
                   hSawClosed>>
    /\ UNCHANGED notPolling

\* Lines 76-92 for the packet pkt: the status and the packet written in the
\* response, given whether the URI parses and whether the write succeeds.
GetResponse(pkt, uriOK, writeOK) ==
    IF ~uriOK THEN [status |-> StatusBadRequest, wrote |-> 0]
    ELSE IF writeOK THEN [status |-> StatusOK, wrote |-> pkt]
    ELSE [status |-> StatusOK, wrote |-> 0]

\* Lines 71-92, a GET: ReadPacketOut parks until out holds a packet or closed
\* fires.  With a packet: the request URI is parsed and the packet is written in
\* the format the query asks for.  With closed: 404.
HandleGet(r) ==
    /\ hpc[r] = "get"
    /\ \/ /\ pOut # <<>>
          /\ \E uriOK \in BOOLEAN, writeOK \in BOOLEAN :
                LET resp == GetResponse(Head(pOut), uriOK, writeOK) IN
                /\ Answer(r, resp.status)
                /\ hWrote' = [hWrote EXCEPT ![r] = resp.wrote]
                /\ getLog' = IF resp.wrote # 0 THEN Append(getLog, resp.wrote) ELSE getLog
          /\ hTaken' = [hTaken EXCEPT ![r] = Head(pOut)]
          /\ pOut' = Tail(pOut)
       \/ /\ pClosed
          /\ Answer(r, StatusNotFound)
          /\ UNCHANGED <<pOut, hTaken, hWrote, getLog>>
    /\ UNCHANGED <<pIn, pClosed, nOut, inLog, hMethod, hCtype, hN, hI, hClosedAtEntry,
                   hSawClosed>>
    /\ UNCHANGED notPolling

\* Lines 117-125, one round of the loop of a POST: the select takes the closed
\* case (404) or pushes the next packet to in; both may be ready.  After the
\* last push the answer is 200.
HandlePostPush(r) ==
    /\ hpc[r] = "post"
    /\ \/ /\ pClosed
          /\ Answer(r, StatusNotFound)
          /\ UNCHANGED <<pIn, inLog, hI, hSawClosed>>
       \/ /\ Len(pIn) < QueueCap
          /\ pIn' = Append(pIn, <<r, hI[r] + 1>>)
          /\ inLog' = Append(inLog, <<r, hI[r] + 1>>)
          /\ hI' = [hI EXCEPT ![r] = @ + 1]
          /\ hSawClosed' = [hSawClosed EXCEPT ![r] = @ \/ pClosed]
          /\ IF hI[r] + 1 = hN[r]
               THEN Answer(r, StatusOK)
               ELSE UNCHANGED <<hStatus, hpc>>
    /\ UNCHANGED <<pOut, pClosed, nOut, getLog, hMethod, hCtype, hN, hTaken, hWrote,
                   hClosedAtEntry>>
    /\ UNCHANGED notPolling

\* pollingConn.WritePacket: pushes the next packet to out; fails once closed.
PollWritePacket ==
    /\ ~pClosed
    /\ nOut < MaxOut
    /\ Len(pOut) < QueueCap
    /\ pOut' = Append(pOut, nOut + 1)
    /\ nOut' = nOut + 1
    /\ UNCHANGED <<pIn, pClosed, inLog, getLog, hpc, hMethod, hCtype, hN, hI, hStatus,
                   hTaken, hWrote, hClosedAtEntry, hSawClosed>>
    /\ UNCHANGED notPolling

\* pollingConn.ReadPacket: pops a packet from in.
PollReadPacket ==
    /\ pIn # <<>>
    /\ pIn' = Tail(pIn)
    /\ UNCHANGED <<pOut, pClosed, nOut, inLog, getLog, hpc, hMethod, hCtype, hN, hI,
                   hStatus, hTaken, hWrote, hClosedAtEntry, hSawClosed>>
    /\ UNCHANGED notPolling

\* pollingConn.Close: the closed signal fires; in and out are drained.
PollClose ==
    /\ ~pClosed
    /\ pClosed' = TRUE
    /\ pIn' = <<>>
    /\ pOut' = <<>>
    /\ UNCHANGED <<nOut, inLog, getLog, hpc, hMethod, hCtype, hN, hI, hStatus, hTaken,
                   hWrote, hClosedAtEntry, hSawClosed>>
    /\ UNCHANGED notPolling

PollInit ==
    /\ pIn = <<>>
    /\ pOut = <<>>
    /\ pClosed = FALSE
    /\ nOut = 0
    /\ inLog = <<>>
    /\ getLog = <<>>
    /\ hpc = [r \in Requests |-> "idle"]
    /\ hMethod = [r \in Requests |-> "none"]
    /\ hCtype = [r \in Requests |-> "none"]
    /\ hN = [r \in Requests |-> 0]
    /\ hI = [r \in Requests |-> 0]
    /\ hStatus = [r \in Requests |-> 0]
    /\ hTaken = [r \in Requests |-> 0]
    /\ hWrote = [r \in Requests |-> 0]
    /\ hClosedAtEntry = [r \in Requests |-> FALSE]
    /\ hSawClosed = [r \in Requests |-> FALSE]

(***************************************************************************)
(* Server.HandleFastHTTP (engine/fasthttp.go:166-215): a request either    *)
(* opens a session (no sid) or is routed to the session its sid names.     *)
(***************************************************************************)
SrvRequests == 1..NSrvRequests

\* The protocol version the server speaks.
Version == "3"

\* Line 185: the query carries no sid (q.Get returns the empty string).
NoSid == 0
\* The session ids: request r opens session r; one session was opened before,
\* through the server's websocket entry point; one id names no session.
FreshSid(r) == r
WsSid == NSrvRequests + 1
UnknownSid == NSrvRequests + 2
SessionIds == SrvRequests \cup {WsSid, UnknownSid}

\* What a request's URI can be: one that does not parse, or a query with an
\* EIO value, a transport name and an optional sid.
NoQuery == [uriOK |-> FALSE, eio |-> "", transport |-> "", sid |-> NoSid]
Queries ==
    {NoQuery} \cup
    [uriOK : {TRUE}, eio : {Version, "2"},
     transport : {transportPolling, transportWebsocket, "flashsocket"},
     sid : {NoSid} \cup SessionIds]

\* Lines 24-32: the transport of a name, "nil" when there is none.
getFastTransport(name) ==
    CASE name = transportWebsocket -> "nil"
      [] name = transportPolling -> transportPolling
      [] OTHER -> "nil"

Resolves_Always(sid) == TRUE

\* Line 200: sessionManager.Get finds a session under the sid.
Resolves(sid) == sessions[sid] # "none"

UpgradeCandidate_Never(transportName, name) == FALSE

\* Line 205: the request's transport differs from the session's transportName.
UpgradeCandidate(transportName, name) == transportName # name

\* ctx.Error(msg, status) and return.
Reply(r, st) ==
    /\ qStatus' = [qStatus EXCEPT ![r] = st]
    /\ qpc' = [qpc EXCEPT ![r] = "done"]

\* Lines 166-192 and 199-210: the request arrives; the URI, the version and
\* the transport are checked, then a session is opened or looked up.
ServeEntry(r) ==
    /\ qpc[r] = "idle"
    /\ \E query \in Queries :
        /\ q' = [q EXCEPT ![r] = query]
        /\ qFound' = [qFound EXCEPT ![r] =
                        IF query.sid = NoSid THEN "none" ELSE sessions[query.sid]]
        /\ IF ~query.uriOK
             THEN /\ Reply(r, StatusBadRequest)
                  /\ UNCHANGED <<sessions, qSes, qTrace>>
           ELSE IF query.eio # Version
             THEN /\ Reply(r, StatusBadRequest)
                  /\ UNCHANGED <<sessions, qSes, qTrace>>
           ELSE IF getFastTransport(query.transport) = "nil"
             THEN /\ Reply(r, StatusBadRequest)
                  /\ UNCHANGED <<sessions, qSes, qTrace>>
           ELSE IF query.sid = NoSid
             THEN /\ sessions' = [sessions EXCEPT ![FreshSid(r)] =
                                    getFastTransport(query.transport)]
                  /\ qSes' = [qSes EXCEPT ![r] = FreshSid(r)]
                  /\ qTrace' = [qTrace EXCEPT ![r] = <<"accept", "create">>]
                  /\ qpc' = [qpc EXCEPT ![r] = "publish"]
                  /\ UNCHANGED qStatus
           ELSE IF ~Resolves(query.sid)
             THEN /\ Reply(r, StatusBadRequest)
                  /\ UNCHANGED <<sessions, qSes, qTrace>>
           ELSE IF UpgradeCandidate(sessions[query.sid],
                                    getFastTransport(query.transport))
             THEN /\ qSes' = [qSes EXCEPT ![r] = query.sid]
                  /\ qTrace' = [qTrace EXCEPT ![r] = <<"accept">>]
                  /\ qpc' = [qpc EXCEPT ![r] = "upgrade"]
                  /\ UNCHANGED <<sessions, qStatus>>
           ELSE /\ qSes' = [qSes EXCEPT ![r] = query.sid]
                /\ qpc' = [qpc EXCEPT ![r] = "dispatch"]
                /\ UNCHANGED <<sessions, qStatus, qTrace>>
    /\ UNCHANGED <<srvDone, ssChan>>
    /\ UNCHANGED notServer

ServePublish_DoneFallsThrough(r) ==
    /\ qpc[r] = "publish"
    /\ \/ /\ srvDone
          /\ qpc' = [qpc EXCEPT ![r] = "dispatch"]
          /\ UNCHANGED <<ssChan, qTrace>>
       \/ /\ ssChan' = Append(ssChan, qSes[r])
          /\ qTrace' = [qTrace EXCEPT ![r] = Append(@, "publish")]
          /\ qpc' = [qpc EXCEPT ![r] = "dispatch"]
    /\ UNCHANGED <<sessions, srvDone, q, qFound, qSes, qStatus>>
    /\ UNCHANGED notServer

\* Lines 193-197: the select between the done signal and the send of the
\* session on the new-session channel.
ServePublish(r) ==
    /\ qpc[r] = "publish"
    /\ \/ /\ srvDone
          /\ qpc' = [qpc EXCEPT ![r] = "done"]
          /\ UNCHANGED <<ssChan, qTrace>>
       \/ /\ ssChan' = Append(ssChan, qSes[r])
          /\ qTrace' = [qTrace EXCEPT ![r] = Append(@, "publish")]
          /\ qpc' = [qpc EXCEPT ![r] = "dispatch"]
    /\ UNCHANGED <<sessions, srvDone, q, qFound, qSes, qStatus>>
    /\ UNCHANGED notServer

\* Line 211: s.upgrade(session, transportName, conn) invokes the session's
\* upgrade with the accepted conn.
ServeUpgrade(r) ==
    /\ qpc[r] = "upgrade"
    /\ qTrace' = [qTrace EXCEPT ![r] = Append(@, "upgrade")]
    /\ qpc' = [qpc EXCEPT ![r] = "dispatch"]
    /\ UNCHANGED <<sessions, srvDone, ssChan, q, qFound, qSes, qStatus>>
    /\ UNCHANGED notServer

\* Lines 198 and 213: the request is handed to the session's handler.
ServeDispatch(r) ==
    /\ qpc[r] = "dispatch"
    /\ qTrace' = [qTrace EXCEPT ![r] = Append(@, "dispatch")]
    /\ qpc' = [qpc EXCEPT ![r] = "done"]
    /\ UNCHANGED <<sessions, srvDone, ssChan, q, qFound, qSes, qStatus>>
    /\ UNCHANGED notServer

\* The server is closed: its done channel fires.
ServerClose ==
    /\ ~srvDone
    /\ srvDone' = TRUE
    /\ UNCHANGED <<sessions, ssChan, qpc, q, qFound, qSes, qStatus, qTrace>>
    /\ UNCHANGED notServer

\* A session is closed and the session manager removes it.
SessionRemove(sid) ==
    /\ Resolves(sid)
    /\ sessions' = [sessions EXCEPT ![sid] = "none"]
    /\ UNCHANGED <<srvDone, ssChan, qpc, q, qFound, qSes, qStatus, qTrace>>
    /\ UNCHANGED notServer

ServerInit ==
    /\ sessions = [s \in SessionIds |->
                     IF s = WsSid THEN transportWebsocket ELSE "none"]
    /\ srvDone = FALSE
    /\ ssChan = <<>>
    /\ qpc = [r \in SrvRequests |-> "idle"]
    /\ q = [r \in SrvRequests |-> NoQuery]
    /\ qFound = [r \in SrvRequests |-> "none"]
    /\ qSes = [r \in SrvRequests |-> NoSid]
    /\ qStatus = [r \in SrvRequests |-> 0]
    /\ qTrace = [r \in SrvRequests |-> <<>>]

(***************************************************************************)
(* The Socket.IO server (fasthttp.go:217-362): the packets of one socket   *)
(* processed by Server.process, and the EventClose handler of NewServer.   *)
(***************************************************************************)
\* The packet types, by their wire digits.
PacketTypeConnect == 0
PacketTypeDisconnect == 1
PacketTypeEvent == 2
PacketTypeAck == 3
PacketTypeError == 4
PacketTypeBinaryEvent == 5
PacketTypeBinaryAck == 6
PacketTypeUnknown == 7
PacketTypes == PacketTypeConnect..PacketTypeUnknown

\* The namespace names of the packets; attachnsp has no namespace for the last.
NspNames == {"/", "/chat", "/none"}
AvailableNsps == {"/", "/chat"}

\* Packet.ID: nil, or an ack id.
NoID == 0
AckIds == 1..MaxAckId
SioPackets == [type : PacketTypes, nsp : NspNames, id : {NoID} \cup AckIds]

\* sock.attachnsp(name): the namespace of the name, attached if it was not;
\* "nil" when there is none.
attachnsp(name) ==
    IF name \in nsp \/ name \in AvailableNsps THEN name ELSE "nil"

\* The calls of "if sock.onError != nil { sock.onError(...) }".
OnErrorCalls == IF onErrorSet THEN <<"onError">> ELSE <<>>

NoOutcome ==
    [parse |-> "none", ran |-> FALSE, res |-> "none", ackRes |-> "none",
     ackId |-> NoID, ackData |-> "none", log |-> <<>>]

\* Lines 326-335: the ack is sent with the packet itself, so with its id.
AckIdSent(pkt) == pkt.id

AckWanted_Always(pkt) == TRUE

\* Line 326: the packet carries an id.
AckWanted(pkt) == pkt.id # NoID

\* Lines 308-340: an Event or BinaryEvent packet on a namespace that has
\* (hasHandler) or has not a handler for the packet's event.  parse is the
\* result of ParseData (an error, an empty event name, an event), res the
\* result of fireEvent (an error, no values, values), ackRes that of sock.ack.
EventOutcomes(pkt, hasHandler) ==
    {[NoOutcome EXCEPT !.parse = "err", !.log = <<"ParseData">> \o OnErrorCalls],
     [NoOutcome EXCEPT !.parse = "empty", !.log = <<"ParseData">>]}
    \cup
    {[NoOutcome EXCEPT !.parse = "event", !.ran = hasHandler, !.res = "err",
                       !.log = <<"ParseData", "fireEvent">> \o OnErrorCalls] :
        x \in IF hasHandler THEN {1} ELSE {}}
    \cup
    UNION {
        IF AckWanted(pkt)
          THEN {[NoOutcome EXCEPT !.parse = "event", !.ran = hasHandler, !.res = res,
                                  !.ackRes = a, !.ackId = AckIdSent(pkt),
                                  !.ackData = res,
                                  !.log = <<"ParseData", "fireEvent", "ack">> \o
                                          (IF a = "err" THEN OnErrorCalls ELSE <<>>)] :
                    a \in {"ok", "err"}}
          ELSE {[NoOutcome EXCEPT !.parse = "event", !.ran = hasHandler, !.res = res,
                                  !.log = <<"ParseData", "fireEvent">>]} :
        res \in IF hasHandler THEN {"nil", "values"} ELSE {"nil"}}

\* Lines 342-352: an Ack or BinaryAck packet.
AckOutcomes(pkt, hasAckHandler) ==
    IF pkt.id = NoID
      THEN {NoOutcome}
      ELSE {[NoOutcome EXCEPT !.parse = "err", !.log = <<"ParseData">> \o OnErrorCalls],
            [NoOutcome EXCEPT !.parse = "event", !.ran = hasAckHandler,
                              !.log = <<"ParseData", "fireAck">>]}

\* Lines 304-361: the switch on the packet's type.
Outcomes(pkt, hasHandler, hasAckHandler) ==
    CASE pkt.type = PacketTypeConnect -> {NoOutcome}
      [] pkt.type = PacketTypeDisconnect -> {[NoOutcome EXCEPT !.log = <<"detachnsp">>]}
      [] pkt.type \in {PacketTypeEvent, PacketTypeBinaryEvent} ->
            EventOutcomes(pkt, hasHandler)
      [] pkt.type \in {PacketTypeAck, PacketTypeBinaryAck} ->
            AckOutcomes(pkt, hasAckHandler)
      [] OTHER -> {[NoOutcome EXCEPT !.log = OnErrorCalls]}

\* Server.process (lines 296-362) for one packet of the socket.
SioProcess ==
    /\ nProc < MaxPackets
    /\ nProc' = nProc + 1
    /\ \E pkt \in SioPackets :
        LET n == pkt.nsp
            was == n \in nsp
        IN  IF attachnsp(n) = "nil"
              THEN /\ last' = [pkt |-> pkt, attached |-> was, closed |-> sioClosed,
                               onError |-> onErrorSet,
                               out |-> [NoOutcome EXCEPT !.log =
                                         IF pkt.type > PacketTypeDisconnect
                                           THEN <<"EmitError">> ELSE <<>>]]
                   /\ UNCHANGED <<nsp, evH, ackH, connected, lateDispatch>>
              ELSE \E o \in Outcomes(pkt, evH[n], ackH[n]) :
                   /\ last' = [pkt |-> pkt, attached |-> was, closed |-> sioClosed,
                               onError |-> onErrorSet,
                               out |-> o]
                   /\ nsp' = IF pkt.type = PacketTypeDisconnect
                               THEN nsp \ {n} ELSE nsp \cup {n}
                   /\ evH' = IF pkt.type = PacketTypeDisconnect
                               THEN [evH EXCEPT ![n] = FALSE] ELSE evH
                   /\ ackH' = IF \/ pkt.type = PacketTypeDisconnect
                                 \/ "fireAck" \in {o.log[i] : i \in DOMAIN o.log}
                                THEN [ackH EXCEPT ![n] = FALSE] ELSE ackH
                   /\ connected' =
                        CASE pkt.type = PacketTypeConnect -> connected \cup {n}
                          [] pkt.type = PacketTypeDisconnect -> connected \ {n}
                          [] OTHER -> connected
                   /\ lateDispatch' = (lateDispatch \/ (sioClosed /\ o.ran))
    /\ UNCHANGED <<sioClosed, onErrorSet>>
    /\ UNCHANGED notSio

\* Socket.On(namespace, event, handler): the application registers an event
\* handler on an attached namespace of a socket that is not closed.
SioOn(n) ==
    /\ ~sioClosed
    /\ n \in nsp
    /\ ~evH[n]
    /\ evH' = [evH EXCEPT ![n] = TRUE]
    /\ UNCHANGED <<nsp, ackH, sioClosed, onErrorSet, nProc, connected, last,
                   lateDispatch>>
    /\ UNCHANGED notSio

\* Socket.Ack(namespace, event, args, ackHandler): an outgoing event stores
\* its ack handler in the namespace.
SioAck(n) ==
    /\ ~sioClosed
    /\ n \in nsp
    /\ ~ackH[n]
    /\ ackH' = [ackH EXCEPT ![n] = TRUE]
    /\ UNCHANGED <<nsp, evH, sioClosed, onErrorSet, nProc, connected, last,
                   lateDispatch>>
    /\ UNCHANGED notSio

\* Socket.OnError(fn): the application registers the socket's error callback.
SioOnError ==
    /\ ~onErrorSet
    /\ onErrorSet' = TRUE
    /\ UNCHANGED <<nsp, evH, ackH, sioClosed, nProc, connected, last, lateDispatch>>
    /\ UNCHANGED notSio

SioEventClose_NoDetach ==
    /\ ~sioClosed
    /\ sioClosed' = TRUE
    /\ UNCHANGED <<nsp, evH, ackH, onErrorSet, nProc, connected, last, lateDispatch>>
    /\ UNCHANGED notSio

\* Lines 263-266: the engine socket fires EventClose; the handler closes the
\* socket and detaches all of its namespaces, with their handlers.
SioEventClose ==
    /\ ~sioClosed
    /\ sioClosed' = TRUE
    /\ nsp' = {}
    /\ evH' = [n \in NspNames |-> FALSE]
    /\ ackH' = [n \in NspNames |-> FALSE]
    /\ UNCHANGED <<onErrorSet, nProc, connected, last, lateDispatch>>
    /\ UNCHANGED notSio

SioInit ==
    /\ nsp = {}
    /\ evH = [n \in NspNames |-> FALSE]
    /\ ackH = [n \in NspNames |-> FALSE]
    /\ sioClosed = FALSE
    /\ onErrorSet = FALSE
    /\ nProc = 0
    /\ connected = {}
    /\ last = [pkt |-> [type |-> PacketTypeConnect, nsp |-> "/none", id |-> NoID],
               attached |-> FALSE, closed |-> FALSE, onError |-> FALSE,
               out |-> NoOutcome]
    /\ lateDispatch = FALSE

(***************************************************************************)
(* The socket's specification.                                             *)
(***************************************************************************)
SocketInit ==
    /\ Conn = OldConn
    /\ transport = transportPolling
    /\ rwWriter = 0
    /\ rwReaders = {}
    /\ once = "new"
    /\ connClosed = [c \in ConnIds |-> FALSE]
    /\ connPaused = [c \in ConnIds |-> FALSE]
    /\ connOut = [c \in ConnIds |-> <<>>]
    /\ closeCalls = [c \in ConnIds |-> 0]
    /\ upc = [u \in Upgraders |-> "idle"]
    /\ targ = [u \in Upgraders |-> "none"]
    /\ p = [u \in Upgraders |-> NoPacket]
    /\ uconn = [u \in Upgraders |-> NoConn]
    /\ got1 = [u \in Upgraders |-> "none"]
    /\ pongOK = [u \in Upgraders |-> FALSE]
    /\ pausedOK = [u \in Upgraders |-> FALSE]
    /\ got2 = [u \in Upgraders |-> "none"]
    /\ resumed = [u \in Upgraders |-> {}]
    /\ wroteConn = {}
    /\ wroteTransport = {}
    /\ fired = [u \in Upgraders |-> 0]
    /\ cpc = [c \in Closers |-> "idle"]
    /\ emitterCloseCalls = 0
    /\ sockCloseCalls = 0
    /\ rpc = "idle"
    /\ seenConn = NoConn
    /\ seenTransport = "none"
    /\ emClosed = FALSE
    /\ emq = <<>>
    /\ nEmits = 0
    /\ lastEmit = [ev |-> "none", k |-> "none", afterClose |-> FALSE, res |-> "none",
                   n |-> 0,
                   sub |-> <<>>]
    /\ written = <<>>
    /\ lateEmits = {}
    /\ parked = [c \in ConnIds |-> FALSE]
    /\ racyReads = {}

Init == SocketInit /\ PollInit /\ ServerInit /\ SioInit

UpgradeStep(u) ==
    \/ UpgradeCall(u)
    \/ UpgradeRead1(u)
    \/ UpgradeWritePong(u)
    \/ UpgradeReadConn(u)
    \/ UpgradePause(u)
    \/ UpgradeRead2(u)
    \/ UpgradeResume(u)
    \/ UpgradeLock(u)
    \/ UpgradeSetConn(u)
    \/ UpgradeSetTransport(u)
    \/ UpgradeUnlock(u)
    \/ UpgradeFire(u)

CloseStep(c) ==
    \/ CloseCall(c)
    \/ CloseEmitter(c)
    \/ CloseConn(c)
    \/ CloseUnblock(c)

ReaderStep ==
    \/ ReaderLock
    \/ ReaderReadConn
    \/ ReaderReadTransport
    \/ ReaderUnlock

\* Concurrent upgrade calls and a reader on one socket.
Next ==
    \/ \E u \in Upgraders : UpgradeStep(u)
    \/ ReaderStep

Spec == Init /\ [][Next]_vars

\* Close calls, Emit calls with every event and kind of args, the emitter and
\* the client on one socket.
NextEmit ==
    \/ \E c \in Closers : CloseStep(c)
    \/ \E ev \in Events, k \in ArgKinds : Emit(ev, k)
    \/ EmitterWrite
    \/ \E c \in ConnIds :
        \/ ClientPark(c)
        \/ ClientTake(c)

SpecEmit == Init /\ [][NextEmit]_vars

\* Upgrade calls, Send calls, the emitter and the client on one socket.
NextOrder ==
    \/ \E u \in Upgraders : UpgradeStep(u)
    \/ \E k \in {"string"} : Emit("EventMessage", k)
    \/ EmitterWrite
    \/ \E c \in ConnIds :
        \/ ClientPark(c)
        \/ ClientTake(c)

SpecOrder == Init /\ [][NextOrder]_vars

\* Upgrade calls, Close calls and HTTP requests on one socket.
NextRace ==
    \/ \E u \in Upgraders : UpgradeStep(u)
    \/ \E c \in Closers : CloseStep(c)
    \/ SockHandleFastHTTP

SpecRace == Init /\ [][NextRace]_vars

\* Concurrent HTTP requests on one polling conn, with the writer of out, the
\* reader of in, and Close.
NextPolling ==
    \/ \E r \in Requests :
        \/ HandleEntry(r)
        \/ HandleGet(r)
        \/ HandlePostPush(r)
    \/ PollWritePacket
    \/ PollReadPacket
    \/ PollClose

SpecPolling == Init /\ [][NextPolling]_vars

\* Concurrent requests on the server, with the server's Close and sessions
\* that end.
NextServer ==
    \/ \E r \in SrvRequests :
        \/ ServeEntry(r)
        \/ ServePublish(r)
        \/ ServeUpgrade(r)
        \/ ServeDispatch(r)
    \/ ServerClose
    \/ \E sid \in SessionIds : SessionRemove(sid)

SpecServer == Init /\ [][NextServer]_vars

\* The packets of one Socket.IO socket, the application's registrations and
\* the close of the engine socket.
NextSio ==
    \/ SioProcess
    \/ \E n \in NspNames : SioOn(n)
    \/ \E n \in NspNames : SioAck(n)
    \/ SioOnError
    \/ SioEventClose

SpecSio == Init /\ [][NextSio]_vars

(***************************************************************************)
(* Properties of the socket.                                               *)
(***************************************************************************)
\* The newConn of call u did not send a Ping (answered by a Pong) and then an Upgrade.
BadHandshake(u) == got1[u] # "Ping" \/ ~pongOK[u] \/ got2[u] # "Upgrade"

\* C1: when an upgrade call whose newConn did not send Ping then Upgrade has
\* returned, the call has assigned neither Conn nor transport (the socket does
\* not hold newConn, and holds what it was created with when no other call
\* swapped), newConn.Close has been called, and the call fired no EventUpgrade.
C1_FailedUpgradeKeepsConn ==
    \A u \in Upgraders :
        (upc[u] = "done" /\ BadHandshake(u)) =>
            /\ u \notin wroteConn
            /\ u \notin wroteTransport
            /\ Conn # u
            /\ (wroteConn = {} => Conn = OldConn /\ transport = transportPolling)
            /\ connClosed[u]
            /\ closeCalls[u] = 1
            /\ fired[u] = 0

\* An upgrade call returned after a Ping, a Pong, a Pause and a second packet
\* that is not Upgrade.
C1_Witness ==
    \E u \in Upgraders :
        upc[u] = "done" /\ got1[u] = "Ping" /\ pongOK[u] /\ pausedOK[u]
        /\ got2[u] = "Message"

\* C2: however many Close calls are made, sequential or concurrent, Socket.Close
\* calls s.Conn.Close() at most once and emitter.close() at most once, and
\* exactly once each as soon as one Close call has returned.
C2_CloseOnce ==
    /\ sockCloseCalls <= 1
    /\ emitterCloseCalls <= 1
    /\ (\E c \in Closers : cpc[c] = "ret") =>
            sockCloseCalls = 1 /\ emitterCloseCalls = 1

\* Every Close call has returned.
C2_Witness == \A c \in Closers : cpc[c] = "ret"

\* A (Conn, transport) pair that one assignment of the socket's fields made:
\* that of construction, or that of one upgrade call.
ConsistentPair(c, t) ==
    \/ c = OldConn /\ t = transportPolling
    \/ c \in Upgraders /\ t = targ[c]

\* C3: a successful upgrade assigns Conn and transport inside one write-locked
\* section: a reader holding the read lock sees a pair that belongs together,
\* Conn is never nil, and the call fires EventUpgrade exactly once, after both
\* assignments and after the unlock.
C3_AtomicSwap ==
    /\ Conn \in ConnIds
    /\ rpc = "unlock" => ConsistentPair(seenConn, seenTransport)
    /\ rwReaders # {} => ConsistentPair(Conn, transport)
    /\ \A u \in Upgraders :
        /\ (u \in wroteConn \/ u \in wroteTransport) =>
                (rwWriter = u \/ (u \in wroteConn /\ u \in wroteTransport))
        /\ fired[u] <= 1
        /\ fired[u] = 1 =>
                u \in wroteConn /\ u \in wroteTransport /\ rwWriter # u
        /\ (upc[u] = "done" /\ ~BadHandshake(u) /\ pausedOK[u]) =>
                fired[u] = 1

\* The reader, holding the read lock, has read the Conn and the transport of
\* an upgrade call that fired EventUpgrade.
C3_Witness ==
    \E u \in Upgraders :
        fired[u] = 1 /\ rpc = "unlock" /\ seenConn = u /\ seenTransport = targ[u]

\* C4: an upgrade call calls Resume only on the conn it paused successfully;
\* a call that paused a conn and then failed has resumed that conn when it
\* returns; and the conn the socket holds is paused only while a call that
\* paused it is between its Pause and its swap or Resume.
C4_ResumeAfterFailedUpgrade ==
    /\ \A u \in Upgraders :
        /\ resumed[u] \subseteq (IF pausedOK[u] THEN {uconn[u]} ELSE {})
        /\ (upc[u] = "done" /\ pausedOK[u] /\ got2[u] # "Upgrade") =>
                resumed[u] = {uconn[u]}
    /\ connPaused[Conn] =>
            \E u \in Upgraders :
                /\ pausedOK[u]
                /\ uconn[u] = Conn
                /\ upc[u] \in {"read2", "resume", "lock", "setconn"}

\* An upgrade call paused the conn of the socket, its second read failed, and it
\* returned after Resume on that conn.
C4_Witness ==
    \E u \in Upgraders :
        upc[u] = "done" /\ pausedOK[u] /\ got2[u] = "err"
        /\ resumed[u] = {uconn[u]} /\ uconn[u] = Conn /\ ~connPaused[Conn]

\* The emitter has written a packet to conn c.
WrittenTo(c) == \E i \in DOMAIN written : written[i].conn = c

\* Conn c still holds a packet the emitter wrote to it.
HoldsEmitted(c) == \E i \in DOMAIN connOut[c] : connOut[c][i].n > 0

\* C5: across an upgrade outbound packets keep their order: no packet is
\* written to the conn the socket holds now while a conn it held before still
\* holds a packet that the client has not taken.
C5_OrderAcrossUpgrade ==
    \A c \in ConnIds : (c # Conn /\ HoldsEmitted(c)) => ~WrittenTo(Conn)

ValidEvents == {"EventOpen", "EventMessage", "EventClose", "EventPing", "EventPong"}

\* No packet of an Emit call made after Close had run is queued or written.
NoLatePacket ==
    /\ \A i \in DOMAIN emq : emq[i].n \notin lateEmits
    /\ \A i \in DOMAIN written : written[i].n \notin lateEmits

\* C6 as stated: once Close has run, every later Emit fails with
\* ErrEmitterClosed, no packet of it is queued or written, and the emitter is
\* closed exactly once.
C6_EveryLateEmitFailsClosed ==
    /\ lastEmit.afterClose => lastEmit.res = "ErrEmitterClosed"
    /\ NoLatePacket
    /\ emitterCloseCalls <= 1
    /\ once = "done" => emitterCloseCalls = 1

\* C6, amended: once Close has run, every later Emit fails: with
\* ErrInvalidEvent for an event that has no packet type, with the error of
\* json.Marshal for args it cannot encode, and with ErrEmitterClosed
\* otherwise; no packet of it is queued or written, and the emitter is closed
\* exactly once.
C6_LateEmitFails ==
    /\ lastEmit.afterClose =>
            /\ lastEmit.res # "nil"
            /\ lastEmit.ev \notin ValidEvents => lastEmit.res = "ErrInvalidEvent"
            /\ (lastEmit.ev \in ValidEvents /\ lastEmit.k = "unmarshalable") =>
                    lastEmit.res = "ErrMarshal"
            /\ (lastEmit.ev \in ValidEvents /\ lastEmit.k # "unmarshalable") =>
                    lastEmit.res = "ErrEmitterClosed"
    /\ NoLatePacket
    /\ emitterCloseCalls <= 1
    /\ once = "done" => emitterCloseCalls = 1

\* A Send (Emit of EventMessage with a string) was made after Close had run,
\* and an earlier Emit had been queued.
C6_Witness ==
    /\ lastEmit.afterClose
    /\ lastEmit.ev = "EventMessage"
    /\ lastEmit.k = "string"
    /\ lastEmit.res = "ErrEmitterClosed"
    /\ lastEmit.n > 1

(***************************************************************************)
(* Properties of the polling conn's HTTP handler.                          *)
(***************************************************************************)
\* C7: the GETs deliver the packets written to the conn in order with no gaps:
\* a finished GET that took a packet from out has written it in its response,
\* and the packets written in the responses are the first packets of the
\* sequence written to the conn.
C7_GetsDeliverInOrder ==
    /\ \A r \in Requests :
        (hpc[r] = "done" /\ hTaken[r] # 0) => hWrote[r] = hTaken[r]
    /\ \A i \in DOMAIN getLog : getLog[i] = i

\* Request r was a POST with an accepted Content-Type and a body that decodes,
\* on a conn that was not closed when it arrived, and it has been answered.
PostAnswered(r) ==
    /\ hpc[r] = "done"
    /\ hMethod[r] = "POST"
    /\ ~hClosedAtEntry[r]
    /\ ContentTypeAccepted(hCtype[r])
    /\ hStatus[r] # StatusInternalServerError

\* C8: a POST pushes its packets in payload order; when closed fires while
\* packets remain it is answered 404 with a prefix pushed, otherwise 200 with
\* all packets pushed; the packets of one POST keep their order in the in queue.
C8_PostPushesOrAborts ==
    /\ \A r \in Requests :
        PostAnswered(r) =>
            /\ hStatus[r] \in {StatusOK, StatusNotFound}
            /\ hSawClosed[r] => hStatus[r] = StatusNotFound
            /\ hStatus[r] = StatusNotFound => hI[r] < hN[r]
            /\ hStatus[r] = StatusOK => hI[r] = hN[r]
    /\ \A i, j \in DOMAIN inLog :
        (i < j /\ inLog[i][1] = inLog[j][1]) => inLog[i][2] < inLog[j][2]

\* C9: a GET or POST that arrives after closed has fired is answered 404, and
\* so is a GET that was parked on out when the conn was closed (it finished
\* without a packet).
C9_ClosedAnswers404 ==
    \A r \in Requests :
        hpc[r] = "done" =>
            /\ (hClosedAtEntry[r] /\ hMethod[r] \in {"GET", "POST"}) =>
                    hStatus[r] = StatusNotFound
            /\ (~hClosedAtEntry[r] /\ hMethod[r] = "GET" /\ hTaken[r] = 0) =>
                    hStatus[r] = StatusNotFound

(***************************************************************************)
(* Properties of Server.HandleFastHTTP.                                    *)
(***************************************************************************)
\* Request r is finished; it carried the server's protocol version and the
\* sid of a session that existed when it arrived.
OnExistingSession(r) ==
    /\ qpc[r] = "done"
    /\ q[r].uriOK
    /\ q[r].eio = Version
    /\ q[r].sid # NoSid
    /\ qFound[r] # "none"

\* Neither Accept nor upgrade was called for request r.
NoAcceptNoUpgrade(r) ==
    \A i \in DOMAIN qTrace[r] : qTrace[r][i] \notin {"accept", "upgrade"}

Rejected(r) ==
    /\ qpc[r] = "done"
    /\ \/ ~q[r].uriOK
       \/ q[r].eio # Version
       \/ q[r].transport \notin Transports
       \/ q[r].sid # NoSid /\ qFound[r] = "none"

\* No session of request r was published.
NotPublished(r) == \A i \in DOMAIN ssChan : ssChan[i] # FreshSid(r)

\* C11: a request with a version mismatch, an unknown transport name or a sid
\* the session manager does not resolve is answered 400, and for it no conn is
\* accepted, no session is created or published, no upgrade is started and no
\* session handler is invoked.
C11_RejectedWith400 ==
    \A r \in SrvRequests :
        Rejected(r) =>
            /\ qStatus[r] = StatusBadRequest
            /\ qTrace[r] = <<>>
            /\ qSes[r] = NoSid
            /\ sessions[FreshSid(r)] = "none"
            /\ NotPublished(r)

\* A polling request of the right version named the session that was opened
\* before, after that session was removed, and was answered.
C11_Witness ==
    \E r \in SrvRequests :
        /\ Rejected(r)
        /\ q[r].eio = Version
        /\ q[r].transport = transportPolling
        /\ q[r].sid = WsSid
        /\ qFound[r] = "none"
        /\ qStatus[r] = StatusBadRequest

\* Request r has arrived without sid and passed the checks of lines 167-183.
OpensSession(r) ==
    /\ qpc[r] # "idle"
    /\ q[r].uriOK
    /\ q[r].eio = Version
    /\ q[r].transport = transportPolling
    /\ q[r].sid = NoSid

\* The session of request r has been sent on the new-session channel.
Published(r) == \E i \in DOMAIN ssChan : ssChan[i] = FreshSid(r)

\* C12: for a valid request without sid the server accepts a conn, creates the
\* session with its transport name and publishes it before the session's
\* handler is invoked for the request; a published session is given the
\* request; when the done signal fires instead of the publish the request
\* returns without the handler being invoked.
C12_PublishBeforeFirstRequest ==
    \A r \in SrvRequests :
        OpensSession(r) =>
            /\ qSes[r] = FreshSid(r)
            /\ qpc[r] = "publish" =>
                  (qTrace[r] = <<"accept", "create">> /\ ~Published(r))
            /\ qpc[r] = "dispatch" =>
                  (qTrace[r] = <<"accept", "create", "publish">> /\ Published(r))
            /\ qpc[r] = "done" =>
                  \/ /\ qTrace[r] = <<"accept", "create", "publish", "dispatch">>
                     /\ Published(r)
                  \/ /\ qTrace[r] = <<"accept", "create">>
                     /\ ~Published(r)
                     /\ srvDone
            /\ qStatus[r] = 0

\* One request opened a session, published it and was dispatched; another
\* returned at the done signal.
C12_Witness ==
    \E r1, r2 \in SrvRequests :
        /\ OpensSession(r1) /\ qpc[r1] = "done"
        /\ qTrace[r1] = <<"accept", "create", "publish", "dispatch">>
        /\ OpensSession(r2) /\ qpc[r2] = "done"
        /\ qTrace[r2] = <<"accept", "create">>

(***************************************************************************)
(* Properties of the Socket.IO server.                                     *)
(***************************************************************************)
\* The positions of a call in the calls process made for the last packet.
CallsOf(name) == {i \in DOMAIN last.out.log : last.out.log[i] = name}

\* The last packet processed was an Event or BinaryEvent packet for which
\* attachnsp returned a namespace.
EventProcessed ==
    /\ nProc > 0
    /\ last.pkt.type \in {PacketTypeEvent, PacketTypeBinaryEvent}
    /\ last.attached \/ last.pkt.nsp \in AvailableNsps

\* C13: for an Event or BinaryEvent packet with an id on an attached namespace,
\* when ParseData and the user handler succeed exactly one Ack with the
\* packet's id and the handler's return values is sent, after the handler
\* returned; when ParseData or the handler returns an error the error goes to
\* onError (when one is set) and no Ack is sent; a packet without id never
\* produces an Ack.
C13_AckAfterHandler ==
    EventProcessed =>
        /\ (last.pkt.id # NoID /\ last.out.parse = "event" /\ last.out.ran
              /\ last.out.res # "err") =>
                /\ Cardinality(CallsOf("ack")) = 1
                /\ Cardinality(CallsOf("fireEvent")) = 1
                /\ \A i \in CallsOf("fireEvent"), j \in CallsOf("ack") : i < j
                /\ last.out.ackId = last.pkt.id
                /\ last.out.ackData = last.out.res
        /\ (last.out.parse = "err" \/ last.out.res = "err") =>
                /\ CallsOf("ack") = {}
                /\ last.onError => Cardinality(CallsOf("onError")) = 1
        /\ last.pkt.id = NoID => CallsOf("ack") = {}

\* An Event packet with an id was handled by a registered handler that
\* returned values, and the Ack was sent.
C13_Witness ==
    /\ EventProcessed
    /\ last.pkt.id # NoID
    /\ last.out.ran
    /\ last.out.res = "values"
    /\ last.out.log = <<"ParseData", "fireEvent", "ack">>
    /\ last.out.ackId = last.pkt.id

\* C14: a name is in the socket's namespace map only if a Connect packet for
\* it was processed and no Disconnect for it after that; a Connect for an
\* attached namespace leaves the map unchanged; a packet of another type never
\* creates an entry.
C14_NamespacesFromConnect ==
    /\ [](nsp \subseteq connected)
    /\ [][nProc' = nProc + 1 =>
            /\ (last'.pkt.type = PacketTypeConnect /\ last'.pkt.nsp \in nsp) =>
                    nsp' = nsp
            /\ last'.pkt.type # PacketTypeConnect => nsp' \subseteq nsp]_vars

\* C15: when the engine socket fires EventClose the Socket.IO socket is closed
\* and all of its namespaces are detached, with their handlers, and no event
\* or ack handler of the socket is dispatched afterwards.
C15_CloseDetachesAll ==
    /\ [](sioClosed =>
            /\ ~lateDispatch
            /\ \A n \in NspNames : ~evH[n] /\ ~ackH[n])
    /\ [][(~sioClosed /\ sioClosed') => nsp' = {}]_vars

\* The EventClose handler ran on a socket with a namespace attached by a
\* Connect, and an Event packet for that namespace was processed after it, up
\* to fireEvent, without a handler being dispatched.
C15_Witness ==
    /\ sioClosed
    /\ last.closed
    /\ last.pkt.type = PacketTypeEvent
    /\ last.pkt.nsp \in connected
    /\ last.out.parse = "event"
    /\ "fireEvent" \in {last.out.log[i] : i \in DOMAIN last.out.log}
    /\ ~last.out.ran

\* The packet type the claim gives for an event.
C16_TypeFor(ev) ==
    CASE ev = "EventOpen" -> "Open"
      [] ev = "EventMessage" -> "Message"
      [] ev = "EventClose" -> "Close"
      [] ev = "EventPing" -> "Ping"
      [] ev = "EventPong" -> "Pong"
      [] OTHER -> "none"

\* C16 as stated: Emit of EventOpen, EventMessage, EventClose, EventPing or
\* EventPong submits exactly one packet, of type Open, Message, Close, Ping or
\* Pong, to the emitter; Emit of any other event returns ErrInvalidEvent and
\* submits nothing.
C16_EmitSubmitsOnePacket ==
    lastEmit.n > 0 =>
        IF lastEmit.ev \in ValidEvents
          THEN /\ Len(lastEmit.sub) = 1
               /\ lastEmit.sub[1].t = C16_TypeFor(lastEmit.ev)
          ELSE /\ lastEmit.res = "ErrInvalidEvent"
               /\ lastEmit.sub = <<>>

\* C16, amended: Emit of one of the five events with args that are bytes, a
\* string or a value json.Marshal encodes submits exactly one packet of the
\* event's type; with args json.Marshal rejects it returns that error and
\* submits nothing; Emit of any other event returns ErrInvalidEvent and
\* submits nothing.
C16_EmitSubmitsUnlessMarshalFails ==
    lastEmit.n > 0 =>
        IF lastEmit.ev \in ValidEvents
          THEN IF lastEmit.k = "unmarshalable"
                 THEN /\ lastEmit.res = "ErrMarshal"
                      /\ lastEmit.sub = <<>>
                 ELSE /\ Len(lastEmit.sub) = 1
                      /\ lastEmit.sub[1].t = C16_TypeFor(lastEmit.ev)
                      /\ lastEmit.sub[1].m = "String"
          ELSE /\ lastEmit.res = "ErrInvalidEvent"
               /\ lastEmit.sub = <<>>

\* An Emit of EventPing was submitted as a Ping packet and queued.
C16_Witness ==
    /\ lastEmit.ev = "EventPing"
    /\ lastEmit.res = "nil"
    /\ Len(lastEmit.sub) = 1
    /\ lastEmit.sub[1].t = "Ping"
    /\ \E i \in DOMAIN emq : emq[i] = lastEmit.sub[1]

\* C17: every read of the socket's Conn and transport fields holds the
\* reader-writer lock and every write holds it exclusively: no operation
\* (Close, the HTTP request handler) reads Conn without the lock while an
\* upgrade holds the exclusive lock to swap it.
C17_FieldsUnderLock ==
    /\ racyReads = {}
    /\ \A u \in Upgraders :
        upc[u] \in {"setconn", "settransport", "unlock"} => rwWriter = u

\* C19: once Socket.Close has completed, the conn in the socket's Conn field
\* is a closed conn in every later state, whatever a concurrent upgrade does.
C19_ClosedSocketHoldsClosedConn ==
    once = "done" => connClosed[Conn]

\* C18: the Pong written by an upgrade call carries the payload and message
\* type of the Ping it read and goes to newConn only; Pause is called on the
\* socket's conn after that write, and the second packet is read after Pause
\* returned; a call whose first packet is not a Ping or whose Pong write fails
\* never pauses the old conn; when Pause fails newConn is closed, Resume is not
\* called and the call does not assign the Conn field.
C18_HandshakeOrder ==
    /\ [](\A u \in Upgraders :
            /\ uconn[u] # NoConn => (got1[u] = "Ping" /\ pongOK[u])
            /\ pausedOK[u] => uconn[u] # NoConn
            /\ got2[u] # "none" => pausedOK[u]
            /\ (upc[u] = "done" /\ (got1[u] # "Ping" \/ ~pongOK[u])) =>
                    (uconn[u] = NoConn /\ ~pausedOK[u] /\ resumed[u] = {})
            /\ (upc[u] = "done" /\ uconn[u] # NoConn /\ ~pausedOK[u]) =>
                    (connClosed[u] /\ resumed[u] = {} /\ u \notin wroteConn))
    /\ [][\A u \in Upgraders :
            (upc[u] = "pong" /\ upc'[u] = "rlock") =>
                /\ p[u].t = "Ping"
                /\ connOut'[u] = Append(connOut[u],
                                        [t |-> "Pong", m |-> p[u].m, d |-> p[u].d,
                                         n |-> p[u].n])
                /\ \A c \in ConnIds \ {u} : connOut'[c] = connOut[c]]_vars

\* An upgrade call has answered a binary Ping with its Pong on newConn, paused
\* the socket's conn and is about to read the second packet.
C18_Witness ==
    \E u \in Upgraders :
        /\ upc[u] = "read2"
        /\ pausedOK[u]
        /\ connPaused[uconn[u]]
        /\ connOut[u] = <<Packet("Pong", "Binary", "x")>>

\* The Content-Type headers the claim names as rejected: one that does not
\* parse, text/plain without charset utf-8, and another media type.
C20_RejectedTypes ==
    {"", "text/plain", "text/plain; charset=latin1", "application/json"}

\* Request r pushed nothing to in and took nothing from out.
Untouched(r) ==
    /\ hTaken[r] = 0
    /\ hWrote[r] = 0
    /\ hI[r] = 0
    /\ \A i \in DOMAIN inLog : inLog[i][1] # r

\* C20: a request on an open conn with a method other than GET and POST is
\* answered 405, and a POST with a Content-Type that does not parse, that is
\* text/plain without charset utf-8 or that is another media type is answered
\* 400; neither pushes to in nor takes from out, and the queues are the same
\* after the request as before it.
C20_RejectedLeavesQueues ==
    /\ [](\A r \in Requests :
            (hpc[r] = "done" /\ ~hClosedAtEntry[r]) =>
                /\ hMethod[r] \notin {"GET", "POST"} =>
                        (hStatus[r] = StatusMethodNotAllowed /\ Untouched(r))
                /\ (hMethod[r] = "POST" /\ hCtype[r] \in C20_RejectedTypes) =>
                        (hStatus[r] = StatusBadRequest /\ Untouched(r)))
    /\ [][\A r \in Requests :
            (hpc[r] = "idle" /\ hpc'[r] = "done"
               /\ hStatus'[r] \in {StatusBadRequest, StatusMethodNotAllowed}) =>
                (pIn' = pIn /\ pOut' = pOut)]_vars

\* With a packet waiting in out, a PUT was answered 405 and a POST with
\* Content-Type text/plain was answered 400, and the packet is still in out.
C20_Witness ==
    /\ pOut # <<>>
    /\ ~pClosed
    /\ \E r1, r2 \in Requests :
        /\ hpc[r1] = "done" /\ hMethod[r1] = "PUT"
        /\ hStatus[r1] = StatusMethodNotAllowed
        /\ hpc[r2] = "done" /\ hMethod[r2] = "POST" /\ hCtype[r2] = "text/plain"
        /\ hStatus[r2] = StatusBadRequest

====
